---- MODULE Spec2Model ----
(***************************************************************************)
(* Smart Traffic Signal Optimization System (src/app.py).                  *)
(*                                                                         *)
(* The program is a Streamlit script: every user interaction runs the      *)
(* script from its first line to its last (or to st.stop(), st.rerun() or  *)
(* an uncaught exception).  What survives a run is st.session_state.page   *)
(* and the st.cache_resource cache holding the YOLO model; every other     *)
(* name is a local of the run.  The model follows one browser session:     *)
(* pc is the position of the running script, "idle" between two runs.      *)
(*                                                                         *)
(* The detector (ultralytics YOLO) is external: model.predict either       *)
(* raises or returns a list of result objects, each with a list of boxes,  *)
(* each box with a class id.  Class ids are those of model.names.          *)
(*                                                                         *)
(* A status label starts with an emoji in the source; a TLA+ string holds  *)
(* no such character, so the emoji is written as its code point:           *)
(* "U+1F7E2 Smooth Traffic" is the 16-character Python string made of the  *)
(* green circle, a space and "Smooth Traffic".                             *)
(***************************************************************************)
EXTENDS Integers, Sequences, FiniteSets, Bags, TLC

VARIABLES
    page,           \* st.session_state.page: "unset", "welcome", "main"
    cached,         \* st.cache_resource holds the model load_model() built
    loads,          \* number of times YOLO("yolov8l.pt") was constructed
    option,         \* the sidebar radio's value
    used,           \* model.predict has been called at least once in the process
    pc,             \* position of the script run
    ret,            \* ret of cap.read()
    frame,          \* the decoded frame: "unbound", "bgr" (an image) or "None"
    results,        \* what model.predict returned: a sequence of box sequences
    i,              \* index of the result object the outer loop is at
    j,              \* index of the last box the inner loop has processed
    vehicle_count,  \* process_frame's vehicle_count
    vehicle_types,  \* process_frame's vehicle_types
    annotated,      \* 0: frame.copy(); k > 0: results[k].plot()
    density,        \* traffic_logic's first component
    signal_time,    \* traffic_logic's second component
    color_status,   \* traffic_logic's third component
    bound,          \* the script-level names bound so far in this run
    predictCalls,   \* calls of model.predict in this run
    detector,       \* what model.predict did in this run
    raised,         \* the call whose exception ended this run, or "none"
    outcome,        \* what the run showed: "none", "result" or "error"
    chart,          \* the bars of the vehicle type chart
    first           \* history: the first completed pipeline invocation

session == <<page, cached, loads, option, used>>
frameVars == <<ret, frame>>
loopVars == <<results, i, j, vehicle_count, vehicle_types, annotated>>
logicVars == <<density, signal_time, color_status>>
runVars == <<bound, predictCalls, detector, raised, outcome, chart>>
vars == <<page, cached, loads, option, used, pc, ret, frame, results, i, j,
          vehicle_count, vehicle_types, annotated, density, signal_time,
          color_status, bound, predictCalls, detector, raised, outcome,
          chart, first>>

----------------------------------------------------------------------------
(* Bounds of the detector's answers. *)

\* most result objects in a short answer
MaxResults == 2
\* most boxes, over all result objects, in a short answer
MaxBoxes == 2
\* longest run of one class in a long answer
MaxRun == 15
\* longest tail of non-vehicle boxes in a long answer
MaxTail == 2

----------------------------------------------------------------------------
(* The detector's vocabulary. *)

\* the five whitelisted class names, the keys of vehicle_types
VehicleClasses == {"car", "truck", "bus", "motorcycle", "bicycle"}

\* class ids a box may carry: the five of classes=[1,2,3,5,7] and, the
\* detector being a black box, two ids outside the filter
ClassIds == {0, 1, 2, 3, 5, 7, 9}

\* the class ids of the answers whose history is compared
HistoryIds == {0, 2, 7}

\* model.names[cls]
ModelNames(cls) ==
    CASE cls = 0 -> "person"
      [] cls = 1 -> "bicycle"
      [] cls = 2 -> "car"
      [] cls = 3 -> "motorcycle"
      [] cls = 5 -> "bus"
      [] cls = 7 -> "truck"
      [] cls = 9 -> "traffic light"

Rep(x, n) == [q \in 1..n |-> x]

BoxSeqs(ids, n) == UNION {[1..k -> ids] : k \in 0..n}

Cuts(len, k) ==
    {c \in [0..k -> 0..len] :
        c[0] = 0 /\ c[k] = len /\ \A m \in 1..k : c[m-1] <= c[m]}

Split(flat, c, k) == [m \in 1..k |-> SubSeq(flat, c[m-1] + 1, c[m])]

\* every way to hand the boxes of flat out to at most MaxResults result objects
Groupings(flat) ==
    (IF flat = <<>> THEN {<<>>} ELSE {})
    \cup UNION {{Split(flat, c, k) : c \in Cuts(Len(flat), k)} : k \in 1..MaxResults}

Outputs(ids) == UNION {Groupings(flat) : flat \in BoxSeqs(ids, MaxBoxes)}

\* short answers: every order and grouping of at most MaxBoxes boxes
ShortOutputs == Outputs(ClassIds)

HistoryOutputs == Outputs(HistoryIds)

\* long answers, one result object: cars, then one other class, then persons
LongOutputs ==
    {<<Rep(2, m) \o Rep(b, n) \o Rep(0, k)>> :
        m \in 0..MaxRun, b \in ClassIds, n \in 0..MaxRun, k \in 0..MaxTail}

DetectorOutputs == ShortOutputs \cup LongOutputs

----------------------------------------------------------------------------
(* The pure parts of the pipeline. *)

\* the value standing for vehicle_types while the name is unbound
NoTally == [c \in VehicleClasses |-> 0]

\* the tally seeded with what an earlier invocation left
InitialTallyKept ==
    IF first.set THEN first.vehicle_types ELSE [c \in VehicleClasses |-> 0]

\* line 102
InitialTally == [c \in VehicleClasses |-> 0]

\* bicycles left out of the whitelist
WhitelistedMotor(label, types) == label \in DOMAIN types \ {"bicycle"}

\* line 109
Whitelisted(label, types) == label \in DOMAIN types

\* the per-class increment forgotten
IncrementTypeForgotten(types, label) == types

\* line 110
IncrementType(types, label) == [types EXCEPT ![label] = @ + 1]

\* line 111
IncrementCount(count) == count + 1

\* only the first result object is read
MoreResultsFirstOnly(k, res) == k < Len(res) /\ k < 1

\* for result in results
MoreResults(k, res) == k < Len(res)

\* the last box of a result object is dropped
MoreBoxesShort(k, boxes) == k + 1 < Len(boxes)

\* for box in result.boxes
MoreBoxes(k, boxes) == k < Len(boxes)

\* strict comparisons
traffic_logic_strict(count) ==
    IF count < 10 THEN <<"LOW", 15, "U+1F7E2 Smooth Traffic">>
    ELSE IF count < 25 THEN <<"MEDIUM", 30, "U+1F7E1 Moderate Traffic">>
    ELSE <<"HIGH", 45, "U+1F534 Heavy Congestion">>

\* the MEDIUM row carrying the HIGH row's label
traffic_logic_mislabeled(count) ==
    IF count <= 10 THEN <<"LOW", 15, "U+1F7E2 Smooth Traffic">>
    ELSE IF count <= 25 THEN <<"MEDIUM", 30, "U+1F534 Heavy Congestion">>
    ELSE <<"HIGH", 45, "U+1F534 Heavy Congestion">>

\* lines 117-120
traffic_logic(count) ==
    IF count <= 10 THEN <<"LOW", 15, "U+1F7E2 Smooth Traffic">>
    ELSE IF count <= 25 THEN <<"MEDIUM", 30, "U+1F7E1 Moderate Traffic">>
    ELSE <<"HIGH", 45, "U+1F534 Heavy Congestion">>

\* line 174
Filtered(types) == {k \in DOMAIN types : types[k] > 0}

NoFirst ==
    [set |-> FALSE, current |-> FALSE, results |-> <<>>, vehicle_count |-> 0,
     vehicle_types |-> NoTally, density |-> "", signal_time |-> 0,
     color_status |-> ""]

----------------------------------------------------------------------------
(* The script. *)

\* the locals of a run that has bound nothing yet
FreshRun ==
    /\ ret = FALSE /\ frame = "unbound"
    /\ results = <<>> /\ i = 0 /\ j = 0
    /\ vehicle_count = 0 /\ vehicle_types = NoTally /\ annotated = 0
    /\ density = "" /\ signal_time = 0 /\ color_status = ""
    /\ bound = {} /\ predictCalls = 0 /\ detector = "unused"
    /\ raised = "none" /\ outcome = "none" /\ chart = {}

Init ==
    /\ page = "unset" /\ cached = FALSE /\ loads = 0
    /\ option = "Upload Video" /\ used = FALSE
    /\ pc = "idle"
    /\ FreshRun
    /\ first = NoFirst

\* an interaction (or the first request) starts a run with fresh locals
Interact ==
    /\ pc = "idle"
    /\ pc' = "run"
    /\ ret' = FALSE /\ frame' = "unbound"
    /\ results' = <<>> /\ i' = 0 /\ j' = 0
    /\ vehicle_count' = 0 /\ vehicle_types' = NoTally /\ annotated' = 0
    /\ density' = "" /\ signal_time' = 0 /\ color_status' = ""
    /\ bound' = {} /\ predictCalls' = 0 /\ detector' = "unused"
    /\ raised' = "none" /\ outcome' = "none" /\ chart' = {}
    /\ UNCHANGED session

\* the exception swallowed, the run going on with no detections
PropagateSwallowed(call) ==
    /\ raised' = "none"
    /\ outcome' = "none"
    /\ pc' = "for_result"

\* an exception nothing catches ends the run; Streamlit shows it
Propagate(call) ==
    /\ raised' = call
    /\ outcome' = "error"
    /\ pc' = "idle"

\* lines 16-50
Welcome ==
    /\ pc = "run"
    /\ page # "main"
    /\ \E clicked \in BOOLEAN :
        IF clicked
        THEN page' = "main" /\ pc' = "run"
        ELSE page' = "welcome" /\ pc' = "idle"
    /\ UNCHANGED <<cached, loads, option, used>>
    /\ UNCHANGED <<frameVars, loopVars, logicVars, runVars>>

\* no cache: the model is built by every run
CacheMiss == FALSE

\* st.cache_resource: the cached object is returned when there is one
CacheHit == cached

\* lines 55, 85-88
LoadModel ==
    /\ pc = "run"
    /\ page = "main"
    /\ IF CacheHit
       THEN /\ pc' = "sidebar"
            /\ UNCHANGED <<cached, loads, raised, outcome>>
       ELSE \E built \in BOOLEAN :
            IF built
            THEN /\ cached' = TRUE /\ loads' = loads + 1
                 /\ pc' = "sidebar"
                 /\ UNCHANGED <<raised, outcome>>
            ELSE /\ Propagate("YOLO")
                 /\ UNCHANGED <<cached, loads>>
    /\ UNCHANGED <<page, option, used, bound, predictCalls, detector, chart>>
    /\ UNCHANGED <<frameVars, loopVars, logicVars>>

\* lines 94, 125-135
VideoSection ==
    /\ pc = "sidebar"
    /\ option' = "Upload Video"
    /\ \E uploaded \in BOOLEAN :
        IF uploaded
        THEN \E r \in BOOLEAN :
                /\ ret' = r
                /\ frame' = IF r THEN "bgr" ELSE "None"
                /\ bound' = {"ret", "frame"}
                /\ pc' = IF r THEN "predict" ELSE "chart"
        ELSE /\ pc' = "chart"
             /\ UNCHANGED <<ret, frame, bound>>
    /\ UNCHANGED <<page, cached, loads, used>>
    /\ UNCHANGED <<loopVars, logicVars, predictCalls, detector, raised, outcome, chart>>

\* lines 94, 150-156
ImageSection ==
    /\ pc = "sidebar"
    /\ option' = "Upload Image"
    /\ \E uploaded \in BOOLEAN :
        IF uploaded
        THEN \E decoded \in BOOLEAN, shown \in BOOLEAN :
                /\ frame' = IF decoded THEN "bgr" ELSE "None"
                /\ bound' = {"image"}
                /\ IF decoded \/ shown
                   THEN pc' = "predict" /\ UNCHANGED <<raised, outcome>>
                   ELSE Propagate("st.image")
        ELSE /\ pc' = "chart"
             /\ UNCHANGED <<frame, bound, raised, outcome>>
    /\ UNCHANGED <<page, cached, loads, used, ret>>
    /\ UNCHANGED <<loopVars, logicVars, predictCalls, detector, chart>>

\* lines 99-103
Predict(outs) ==
    /\ pc = "predict"
    /\ predictCalls' = predictCalls + 1
    /\ used' = TRUE
    /\ \/ /\ detector' = "raised"
          /\ Propagate("model.predict")
          /\ UNCHANGED loopVars
       \/ \E r \in outs :
             /\ detector' = "returned"
             /\ IF frame = "None"
                THEN Propagate("frame.copy") /\ UNCHANGED loopVars
                ELSE /\ results' = r
                     /\ vehicle_count' = 0
                     /\ vehicle_types' = InitialTally
                     /\ annotated' = 0
                     /\ i' = 0 /\ j' = 0
                     /\ pc' = "for_result"
                     /\ UNCHANGED <<raised, outcome>>
    /\ UNCHANGED <<page, cached, loads, option>>
    /\ UNCHANGED <<frameVars, logicVars, bound, chart>>

\* lines 104-105
EnterResult ==
    /\ pc = "for_result"
    /\ MoreResults(i, results)
    /\ i' = i + 1
    /\ annotated' = i + 1
    /\ j' = 0
    /\ pc' = "for_box"
    /\ UNCHANGED <<results, vehicle_count, vehicle_types>>
    /\ UNCHANGED <<session, frameVars, logicVars, runVars>>

\* lines 106-111
ProcessBox ==
    /\ pc = "for_box"
    /\ MoreBoxes(j, results[i])
    /\ j' = j + 1
    /\ LET cls == results[i][j + 1]
           label == ModelNames(cls)
       IN  IF Whitelisted(label, vehicle_types)
           THEN /\ vehicle_types' = IncrementType(vehicle_types, label)
                /\ vehicle_count' = IncrementCount(vehicle_count)
           ELSE UNCHANGED <<vehicle_types, vehicle_count>>
    /\ UNCHANGED <<results, i, annotated, pc>>
    /\ UNCHANGED <<session, frameVars, logicVars, runVars>>

\* the inner loop is exhausted
EndBoxes ==
    /\ pc = "for_box"
    /\ ~MoreBoxes(j, results[i])
    /\ pc' = "for_result"
    /\ UNCHANGED <<session, frameVars, loopVars, logicVars, runVars>>

\* line 112, and the assignment of lines 136 and 157
Return ==
    /\ pc = "for_result"
    /\ ~MoreResults(i, results)
    /\ bound' = bound \cup {"annotated", "vehicle_count", "vehicle_types"}
    /\ pc' = "logic"
    /\ UNCHANGED <<predictCalls, detector, raised, outcome, chart>>
    /\ UNCHANGED <<session, frameVars, loopVars, logicVars>>

\* lines 137-145 and 158-166
TrafficLogic ==
    /\ pc = "logic"
    /\ LET t == traffic_logic(vehicle_count)
       IN  /\ density' = t[1]
           /\ signal_time' = t[2]
           /\ color_status' = t[3]
    /\ bound' = bound \cup {"density", "signal_time", "color_status"}
    /\ outcome' = "result"
    /\ pc' = "chart"
    /\ UNCHANGED <<predictCalls, detector, raised, chart>>
    /\ UNCHANGED <<session, frameVars, loopVars>>

\* lines 171-191
Footer ==
    /\ pc = "chart"
    /\ chart' = IF "vehicle_count" \in bound THEN Filtered(vehicle_types) ELSE {}
    /\ pc' = "idle"
    /\ UNCHANGED <<bound, predictCalls, detector, raised, outcome>>
    /\ UNCHANGED <<session, frameVars, loopVars, logicVars>>

\* history: the first invocation that showed a result is remembered
Record ==
    first' =
        IF pc = "idle" /\ pc' = "run" THEN [first EXCEPT !.current = FALSE]
        ELSE IF ~first.set /\ outcome = "none" /\ outcome' = "result"
        THEN [set |-> TRUE, current |-> TRUE, results |-> results',
              vehicle_count |-> vehicle_count', vehicle_types |-> vehicle_types',
              density |-> density', signal_time |-> signal_time',
              color_status |-> color_status']
        ELSE first

\* the script, whatever the detector answers
Next ==
    \/ Interact /\ UNCHANGED first
    \/ Welcome /\ UNCHANGED first
    \/ LoadModel /\ UNCHANGED first
    \/ VideoSection /\ UNCHANGED first
    \/ ImageSection /\ UNCHANGED first
    \/ Predict(DetectorOutputs) /\ UNCHANGED first
    \/ EnterResult /\ UNCHANGED first
    \/ ProcessBox /\ UNCHANGED first
    \/ EndBoxes /\ UNCHANGED first
    \/ Return /\ UNCHANGED first
    \/ TrafficLogic /\ UNCHANGED first
    \/ Footer /\ UNCHANGED first

Spec == Init /\ [][Next]_vars

\* the script on short answers, with the history kept
NextHistory ==
    \/ Interact /\ Record
    \/ Welcome /\ Record
    \/ LoadModel /\ Record
    \/ VideoSection /\ Record
    \/ ImageSection /\ Record
    \/ Predict(HistoryOutputs) /\ Record
    \/ EnterResult /\ Record
    \/ ProcessBox /\ Record
    \/ EndBoxes /\ Record
    \/ Return /\ Record
    \/ TrafficLogic /\ Record
    \/ Footer /\ Record

SpecHistory == Init /\ [][NextHistory]_vars

----------------------------------------------------------------------------
(* What the claims are stated with. *)

RECURSIVE Flatten(_)
Flatten(res) == IF res = <<>> THEN <<>> ELSE Head(res) \o Flatten(Tail(res))

\* the positions of the boxes of res whose label is label
BoxesOf(label, res) ==
    {p \in UNION {{<<a, b>> : b \in 1..Len(res[a])} : a \in 1..Len(res)} :
        ModelNames(res[p[1]][p[2]]) = label}

CountOf(label, res) == Cardinality(BoxesOf(label, res))

TotalOf(res) ==
    CountOf("car", res) + CountOf("truck", res) + CountOf("bus", res)
    + CountOf("motorcycle", res) + CountOf("bicycle", res)

SumOf(types) ==
    types["car"] + types["truck"] + types["bus"] + types["motorcycle"]
    + types["bicycle"]

\* how often each class id occurs in a sequence of boxes
Occurrences(boxes) ==
    [x \in ClassIds |-> Cardinality({k \in 1..Len(boxes) : boxes[k] = x})]

ResultNames ==
    {"annotated", "vehicle_count", "vehicle_types", "density", "signal_time",
     "color_status"}

----------------------------------------------------------------------------
(* C1: for every count n that traffic_logic is applied to, the tier is LOW *)
(* iff n <= 10, MEDIUM iff 11 <= n <= 25 and HIGH iff n >= 26.             *)
C1_TierThresholds ==
    "density" \in bound =>
        /\ density \in {"LOW", "MEDIUM", "HIGH"}
        /\ (density = "LOW") <=> (vehicle_count <= 10)
        /\ (density = "MEDIUM") <=> (11 <= vehicle_count /\ vehicle_count <= 25)
        /\ (density = "HIGH") <=> (vehicle_count >= 26)

C1_Witness == "density" \in bound /\ vehicle_count = 26 /\ density = "HIGH"

(* C2, as amended: the green time and the status label are those of the    *)
(* table row of the tier, the labels being the source's, which start with  *)
(* a coloured circle: LOW 15 green circle + " Smooth Traffic", MEDIUM 30   *)
(* yellow circle + " Moderate Traffic", HIGH 45 red circle + " Heavy       *)
(* Congestion".                                                            *)
C2_DecisionTable ==
    "color_status" \in bound =>
        /\ density = "LOW" =>
              signal_time = 15 /\ color_status = "U+1F7E2 Smooth Traffic"
        /\ density = "MEDIUM" =>
              signal_time = 30 /\ color_status = "U+1F7E1 Moderate Traffic"
        /\ density = "HIGH" =>
              signal_time = 45 /\ color_status = "U+1F534 Heavy Congestion"
        /\ density \in {"LOW", "MEDIUM", "HIGH"}

C2_Witness ==
    "color_status" \in bound /\ density = "MEDIUM" /\ vehicle_count = 11

(* C2, as claimed: the status labels are "Smooth Traffic", "Moderate      *)
(* Traffic" and "Heavy Congestion", with no other value possible.          *)
C2_LabelsAsClaimed ==
    "color_status" \in bound =>
        /\ density = "LOW" =>
              signal_time = 15 /\ color_status = "Smooth Traffic"
        /\ density = "MEDIUM" =>
              signal_time = 30 /\ color_status = "Moderate Traffic"
        /\ density = "HIGH" =>
              signal_time = 45 /\ color_status = "Heavy Congestion"

(* C3: in process_frame, after any prefix of the detections, vehicle_count *)
(* is the sum of the five per-class counts, every count is a natural       *)
(* number, and the keys of vehicle_types are exactly the five classes.     *)
C3_TallyInvariant ==
    /\ DOMAIN vehicle_types = VehicleClasses
    /\ \A c \in VehicleClasses : vehicle_types[c] \in Nat
    /\ vehicle_count = SumOf(vehicle_types)

C3_Witness ==
    /\ pc = "for_box" /\ j = 2
    /\ ModelNames(results[i][1]) = "person"
    /\ ModelNames(results[i][2]) = "truck"
    /\ vehicle_count = 1

(* C4: processing a box whose label is not whitelisted changes neither     *)
(* vehicle_count nor any per-class count and raises nothing; processing a  *)
(* whitelisted one adds exactly 1 to its class and to vehicle_count and    *)
(* leaves the other four counts as they were.                              *)
C4_BoxEffect ==
    [][(pc = "for_box" /\ j' = j + 1) =>
        LET label == ModelNames(results[i][j + 1])
        IN  /\ raised' = "none" /\ outcome' = "none" /\ pc' = "for_box"
            /\ label \notin VehicleClasses =>
                  vehicle_count' = vehicle_count /\ vehicle_types' = vehicle_types
            /\ label \in VehicleClasses =>
                  /\ vehicle_count' = vehicle_count + 1
                  /\ vehicle_types'[label] = vehicle_types[label] + 1
                  /\ \A c \in VehicleClasses \ {label} :
                        vehicle_types'[c] = vehicle_types[c]]_vars

C4_Witness ==
    /\ pc = "for_box" /\ j = 2
    /\ results[i] = <<9, 1>>
    /\ vehicle_types["bicycle"] = 1
    /\ vehicle_count = 1

(* C5: a run that shows a result shows the number of whitelisted           *)
(* detections as the total, their per-class numbers as the tally, and the  *)
(* tier, green time and status of that total; no detections give total 0,  *)
(* LOW, 15; 10 cars LOW, 15; 11 cars MEDIUM, 30; 15 cars and 12 trucks     *)
(* HIGH, 45; 5 cars, 3 buses and 2 persons total 8, LOW.                   *)
C5_Composition ==
    outcome = "result" =>
        LET flat == Flatten(results)
        IN  /\ raised = "none"
            /\ vehicle_count = TotalOf(results)
            /\ \A c \in VehicleClasses : vehicle_types[c] = CountOf(c, results)
            /\ <<density, signal_time, color_status>> = traffic_logic(TotalOf(results))
            /\ flat = <<>> =>
                  /\ vehicle_types = [c \in VehicleClasses |-> 0]
                  /\ vehicle_count = 0 /\ density = "LOW" /\ signal_time = 15
            /\ flat = Rep(2, 10) =>
                  vehicle_count = 10 /\ density = "LOW" /\ signal_time = 15
            /\ flat = Rep(2, 11) =>
                  vehicle_count = 11 /\ density = "MEDIUM" /\ signal_time = 30
            /\ flat = Rep(2, 15) \o Rep(7, 12) =>
                  vehicle_count = 27 /\ density = "HIGH" /\ signal_time = 45
            /\ flat = Rep(2, 5) \o Rep(5, 3) \o Rep(0, 2) =>
                  /\ vehicle_count = 8 /\ density = "LOW"
                  /\ vehicle_types["car"] = 5 /\ vehicle_types["bus"] = 3
                  /\ vehicle_types["truck"] = 0
                  /\ vehicle_types["motorcycle"] = 0
                  /\ vehicle_types["bicycle"] = 0

C5_Witness ==
    /\ outcome = "result"
    /\ Flatten(results) = Rep(2, 15) \o Rep(7, 12)
    /\ density = "HIGH" /\ signal_time = 45

(* C6: when model.predict raises, the run ends with that exception shown   *)
(* to the user, no result name is bound (no partial result, no total 0 /   *)
(* LOW result in its place) and model.predict was called exactly once; a   *)
(* run on an image that could not be decoded ends with an exception too,   *)
(* with no result name bound and model.predict called at most once.        *)
C6_DetectorFailure ==
    /\ detector = "raised" =>
          /\ pc = "idle"
          /\ outcome = "error" /\ raised = "model.predict"
          /\ bound \cap ResultNames = {}
          /\ density = "" /\ signal_time = 0
          /\ predictCalls = 1
    /\ ("image" \in bound /\ frame = "None" /\ pc = "idle") =>
          /\ outcome = "error"
          /\ bound \cap ResultNames = {}
          /\ predictCalls <= 1

C6_Witness ==
    detector = "raised" /\ pc = "idle" /\ frame = "bgr" /\ predictCalls = 1

(* C7: when the first frame of an uploaded video cannot be read (ret is    *)
(* False), the run ends with an error shown to the user, one that is       *)
(* neither the detector's failure nor a result; it does not end silently.  *)
C7_EmptyFrameSurfaced ==
    (pc = "idle" /\ "ret" \in bound /\ ~ret) =>
        /\ outcome = "error"
        /\ raised \notin {"none", "model.predict"}

(* C8: an invocation on the detections of the first invocation shows the   *)
(* same tally, total, tier, green time and status as the first did,        *)
(* whatever invocations came in between.                                   *)
C8_Stateless ==
    (outcome = "result" /\ first.set /\ results = first.results) =>
        /\ vehicle_types = first.vehicle_types
        /\ vehicle_count = first.vehicle_count
        /\ density = first.density
        /\ signal_time = first.signal_time
        /\ color_status = first.color_status

C8_Witness ==
    /\ outcome = "result" /\ first.set /\ ~first.current
    /\ results = first.results
    /\ vehicle_count = 2

(* C9: an invocation whose detections are those of the first invocation in *)
(* another order, or handed out differently to the result objects, shows   *)
(* the same five counts and the same total.                                *)
C9_OrderIndependent ==
    (/\ outcome = "result" /\ first.set
     /\ Occurrences(Flatten(results)) = Occurrences(Flatten(first.results))) =>
        /\ vehicle_types = first.vehicle_types
        /\ vehicle_count = first.vehicle_count

C9_Witness ==
    /\ outcome = "result" /\ first.set /\ ~first.current
    /\ first.results = <<<<2, 7>>>>
    /\ results = <<<<7>>, <<2>>>>
    /\ vehicle_count = 2

(* C10, as amended: the model is built at most once in the process, by the *)
(* first run of the main page (before any upload is looked at, whether or  *)
(* not the detector is ever called), never while the welcome page is       *)
(* shown; it is built before every call of model.predict, and every later  *)
(* run uses the cached model.                                              *)
C10_LoadedOnce ==
    /\ loads <= 1
    /\ cached <=> (loads = 1)
    /\ page # "main" => loads = 0
    /\ pc \notin {"idle", "run"} => cached
    /\ (page = "main" /\ pc = "idle" /\ raised # "YOLO") => cached
    /\ (used \/ predictCalls > 0) => cached

C10_Witness ==
    used /\ pc = "predict" /\ predictCalls = 0 /\ loads = 1

(* C10, as claimed: the model is built on the first use of the detector    *)
(* and not earlier, so a process that has built it has used the detector   *)
(* by the end of that run.                                                 *)
C10_LoadedOnFirstUse ==
    (loads > 0 /\ pc = "idle") => used

====
